---- MODULE Spec2Model ----
(***************************************************************************)
(* A model of profiling.remote.eventlet: the eventlet profiling server.   *)
(*                                                                         *)
(* Tasks are eventlet green threads: the accept loop (serve_forever), one *)
(* watcher per client (_start_watching), and the sampling sessions        *)
(* (profile_periodically), one per _start_profiling call.  They share the *)
(* client registry `clients` and the semaphore `lock`.                    *)
(*                                                                         *)
(* ProfilingServer (connected, disconnected, profiling) is imported from  *)
(* the package and is not part of this file; its behaviour is taken from  *)
(* the design document (sections 4.2 and 4.4).                            *)
(***************************************************************************)
EXTENDS Naturals, FiniteSets

\* Number of connections that arrive during a run.  Every connection is a
\* fresh socket object, so connection k is the k-th socket to arrive.
MaxConn == 3

\* Number of connections that arrive during a run checked for progress.
MaxLiveConn == 2

Conns == 1..MaxConn

\* Sampling tasks: _start_profiling runs at most once per connection.
Tasks == 1..MaxConn

VARIABLES
    server,     \* serve_forever: "accepting", or the exception that ended it
    nconn,      \* number of sockets that have arrived so far
    sock,       \* sock[c]: "none", "accepted", "closed", or, while the socket is
                \* open, what its peer has done: "open" (nothing yet), "eof"
                \* (closed its end), "reset", "data" (sent a byte)
    watch,      \* watch[c]: the watcher green thread: "none", "reading", "done"
    clients,    \* ProfilingServer.clients, the registry
    lock,       \* counter of self.lock
    pc,         \* pc[s]: position of sampling task s
    todo,       \* todo[s]: clients the running broadcast has still to send to
    regAt,      \* regAt[s]: the registry when the running broadcast started
    delivered,  \* delivered[s]: clients whose _send returned in this broadcast
    failures,   \* failures[s]: clients whose _send raised in this broadcast
    log,        \* log[s]: outcome of the last iteration of task s
    exit,       \* exit[s]: why task s left profile_periodically
    observed,   \* clients whose removal has been observed (watcher or failed send)
    probe       \* one call of a wrap_errors object: the kinds it catches, what
                \* the wrapped function does, and what the call gives

vars == <<server, nconn, sock, watch, clients, lock, pc, todo, regAt,
          delivered, failures, log, exit, observed, probe>>

\* -------------------------------------------------------------------------
\* The gate: self.lock = Semaphore()

Semaphore2 == 1 + 1

\* Semaphore() has the default value 1.
Semaphore == 1

locked_never(l) == FALSE

\* Semaphore.locked(): acquire blocks while the counter is not positive.
locked(l) == l = 0

release_unless_raised(l, why) == IF why = "empty" THEN l + 1 ELSE l

release_never(l, why) == l

\* `with self.lock`: __exit__ releases on every way out of the block,
\* whatever the reason `why` (a normal return or a raised exception).
release(l, why) == l + 1

\* -------------------------------------------------------------------------
\* Transport

_send_may_fail(c) == {"ok", "socket.error"}

_send_swallows(c) == IF sock[c] \in {"closed", "eof", "reset"}
                     THEN {"swallowed"}
                     ELSE {"ok"}

\* sock.sendall(data): returns, or raises socket.error on a socket that was
\* closed locally (EBADF) or whose peer reset it (EPIPE, ECONNRESET); after
\* the peer's orderly close a write may still be accepted by the kernel.
_send(c) == IF sock[c] \in {"closed", "reset"}
            THEN {"socket.error"}
            ELSE IF sock[c] = "eof" THEN {"ok", "socket.error"}
            ELSE {"ok"}

\* sock.close()
_close(c) == "closed"

\* sock.recv(1): blocks (no outcome) while the peer is up and the socket is
\* open; returns '' at end of stream, returns the byte the peer sent, raises
\* socket.error on a reset or on a socket closed locally.
recv(c) == IF sock[c] \in {"closed", "reset"}
           THEN {[kind |-> "raise", val |-> "socket.error"]}
           ELSE IF sock[c] = "eof" THEN {[kind |-> "return", val |-> ""]}
           ELSE IF sock[c] = "data" THEN {[kind |-> "return", val |-> "byte"]}
           ELSE {}

\* Exception classes a wrapped function may raise, and the classes each is
\* an instance of (socket.timeout is a socket.error, which is an IOError).
Kinds == {"socket.timeout", "socket.error", "IOError", "ValueError"}

mro(k) == CASE k = "socket.timeout" -> {"socket.timeout", "socket.error", "IOError"}
            [] k = "socket.error" -> {"socket.error", "IOError"}
            [] OTHER -> {k}

\* What a function does when called: it returns a value or raises.
Outcomes == [kind : {"return"}, val : {"", "byte", "None"}]
                \cup [kind : {"raise"}, val : Kinds]

wrap_errors_catches_all(errors, r) == [kind |-> "return", val |-> r.val]

\* wrap_errors.__call__: `except self.errors, ex: return ex` returns an
\* exception that is an instance of a class in `errors` as a value; any other
\* outcome of func, a result or another exception, is passed on unchanged.
wrap_errors(errors, r) == IF r.kind = "raise" /\ mro(r.val) \cap errors # {}
                          THEN [kind |-> "return", val |-> r.val]
                          ELSE r

link_greenlet(c) == 0

link_last(c) == nconn

\* disconnected = lambda x: self.disconnected(sock): the callback ignores
\* its argument and disconnects the socket the watcher was started for.
link(c) == c

\* -------------------------------------------------------------------------
\* ProfilingServer, from the design document

\* add(client): whether this registration is the 0 -> 1 transition.
first(reg, c) == c \notin reg /\ reg = {}

\* takeSnapshot() and serialize(): one snapshot, or one of the two faults.
takeSnapshot == {"ok", "SamplingFault", "ProfilerUnavailableFault"}

contained_none == {}

\* The faults the sampling loop contains: logged, the iteration is skipped.
contained == {"SamplingFault"}

is_empty_never(reg) == FALSE

\* is_empty(): the exit condition of the sampling loop.
is_empty(reg) == reg = {}

\* broadcast delivers to the clients registered when it starts.
targets == clients

\* -------------------------------------------------------------------------

InBody(s) == pc[s] \in {"sleeping", "bcast"}

Pending(s) == pc[s] = "waiting"

NextTask == CHOOSE s \in Tasks : pc[s] = "none" /\ \A t \in 1..(s - 1) : pc[t] # "none"

_start_profiling_nothing == pc

\* eventlet.spawn(self.profile_periodically)
_start_profiling == [pc EXCEPT ![NextTask] = "waiting"]

\* eventlet.spawn(recv, 1).link(disconnected)
_start_watching(c) == [watch EXCEPT ![c] = "reading"]

\* disconnected(client) for every client of F: a client that is not
\* registered is left alone; a registered one is removed and closed.
disconnected(F) ==
    /\ clients' = clients \ F
    /\ sock' = [c \in Conns |-> IF c \in F /\ c \in clients THEN _close(c) ELSE sock[c]]

Init ==
    /\ server = "accepting"
    /\ nconn = 0
    /\ sock = [c \in Conns |-> "none"]
    /\ watch = [c \in Conns |-> "none"]
    /\ clients = {}
    /\ lock = Semaphore
    /\ pc = [s \in Tasks |-> "none"]
    /\ todo = [s \in Tasks |-> {}]
    /\ regAt = [s \in Tasks |-> {}]
    /\ delivered = [s \in Tasks |-> {}]
    /\ failures = [s \in Tasks |-> {}]
    /\ log = [s \in Tasks |-> "none"]
    /\ exit = [s \in Tasks |-> "none"]
    /\ observed = {}
    /\ probe = [errors |-> {}, func |-> [kind |-> "return", val |-> "None"],
                out |-> [kind |-> "pending", val |-> ""]]

\* serve_forever: accept returns a socket, then `spawn(...)` is evaluated.
\* The module imports eventlet but binds no name `spawn`, so the call raises
\* NameError: the loop ends and the accepted socket reaches no handler.
serve_forever ==
    /\ server = "accepting"
    /\ nconn < MaxConn
    /\ nconn' = nconn + 1
    /\ sock' = [sock EXCEPT ![nconn + 1] = "accepted"]
    /\ server' = "NameError"
    /\ UNCHANGED <<probe, watch, clients, lock, pc, todo, regAt, delivered,
                   failures, log, exit, observed>>

\* serve_forever: accept raises; nothing in the loop catches it.
serve_forever_accept_raises ==
    /\ server = "accepting"
    /\ server' = "socket.error"
    /\ UNCHANGED <<probe, nconn, sock, watch, clients, lock, pc, todo, regAt,
                   delivered, failures, log, exit, observed>>

handle_always_starts(c) ==
    /\ c = nconn + 1
    /\ c <= MaxConn
    /\ nconn' = c
    /\ sock' = [sock EXCEPT ![c] = "open"]
    /\ clients' = clients \cup {c}
    /\ pc' = _start_profiling
    /\ watch' = _start_watching(c)
    /\ UNCHANGED <<probe, server, lock, todo, regAt, delivered, failures, log,
                   exit, observed>>

\* handle(sock): connected(sock).  The handler registers the client, starts
\* the sampling task on the 0 -> 1 transition and starts the watcher; it has
\* no blocking point, so it is one step.
handle(c) ==
    /\ c = nconn + 1
    /\ c <= MaxConn
    /\ nconn' = c
    /\ sock' = [sock EXCEPT ![c] = "open"]
    /\ clients' = clients \cup {c}
    /\ pc' = IF first(clients, c) THEN _start_profiling ELSE pc
    /\ watch' = _start_watching(c)
    /\ UNCHANGED <<probe, server, lock, todo, regAt, delivered, failures, log,
                   exit, observed>>

\* The peer of an open connection closes it, resets it, or sends a byte.
PeerEvent(c, e) ==
    /\ sock[c] = "open"
    /\ sock' = [sock EXCEPT ![c] = e]
    /\ UNCHANGED <<probe, server, nconn, watch, clients, lock, pc, todo, regAt,
                   delivered, failures, log, exit, observed>>

\* The watcher green thread: wrap_errors(socket.error, sock.recv)(1) comes
\* back, the green thread ends and its link runs disconnected.
watcher(c) ==
    /\ watch[c] = "reading"
    /\ \E r \in recv(c) :
          LET v == wrap_errors({"socket.error"}, r)
          IN  /\ v.kind \in {"return", "raise"}
              /\ disconnected({link(c)})
    /\ watch' = [watch EXCEPT ![c] = "done"]
    /\ observed' = observed \cup {c}
    /\ UNCHANGED <<probe, server, nconn, lock, pc, todo, regAt, delivered,
                   failures, log, exit>>

lock_acquire_no_sleep(s) ==
    /\ Pending(s)
    /\ ~locked(lock)
    /\ lock' = lock - 1
    /\ pc' = [pc EXCEPT ![s] = "bcast"]
    /\ UNCHANGED <<probe, server, nconn, sock, watch, clients, todo, regAt,
                   delivered, failures, log, exit, observed>>

lock_acquire_no_take(s) ==
    /\ Pending(s)
    /\ ~locked(lock)
    /\ pc' = [pc EXCEPT ![s] = "sleeping"]
    /\ UNCHANGED <<probe, server, nconn, sock, watch, clients, lock, todo, regAt,
                   delivered, failures, log, exit, observed>>

\* profile_periodically: `with self.lock` acquires, the generator runs to its
\* first yield and the task sleeps for the interval.
lock_acquire(s) ==
    /\ Pending(s)
    /\ ~locked(lock)
    /\ lock' = lock - 1
    /\ pc' = [pc EXCEPT ![s] = "sleeping"]
    /\ UNCHANGED <<probe, server, nconn, sock, watch, clients, todo, regAt,
                   delivered, failures, log, exit, observed>>

\* The task leaves profile_periodically: the with block releases the lock.
Leave(s, why) ==
    /\ pc' = [pc EXCEPT ![s] = "done"]
    /\ lock' = release(lock, why)
    /\ exit' = [exit EXCEPT ![s] = why]
    /\ log' = [log EXCEPT ![s] = "none"]
    /\ todo' = [todo EXCEPT ![s] = {}]
    /\ regAt' = [regAt EXCEPT ![s] = {}]
    /\ delivered' = [delivered EXCEPT ![s] = {}]
    /\ failures' = [failures EXCEPT ![s] = {}]

\* The sleep ends; a snapshot is taken and serialized; its broadcast starts.
sample(s) ==
    /\ pc[s] = "sleeping"
    /\ "ok" \in takeSnapshot
    /\ pc' = [pc EXCEPT ![s] = "bcast"]
    /\ log' = [log EXCEPT ![s] = "none"]
    /\ regAt' = [regAt EXCEPT ![s] = clients]
    /\ todo' = [todo EXCEPT ![s] = targets]
    /\ delivered' = [delivered EXCEPT ![s] = {}]
    /\ failures' = [failures EXCEPT ![s] = {}]
    /\ UNCHANGED <<probe, server, nconn, sock, watch, clients, lock, exit, observed>>

\* The sleep ends; taking or serializing the snapshot raises.  A contained
\* fault is logged and the iteration skipped: the loop goes on to its exit
\* check.  Any other fault leaves the generator and profile_periodically.
sample_raises(s, f) ==
    /\ pc[s] = "sleeping"
    /\ f \in takeSnapshot \ {"ok"}
    /\ IF f \in contained /\ ~is_empty(clients)
       THEN /\ log' = [log EXCEPT ![s] = f]
            /\ UNCHANGED <<pc, lock, exit, todo, regAt, delivered, failures>>
       ELSE Leave(s, IF f \in contained THEN "empty" ELSE f)
    /\ UNCHANGED <<probe, server, nconn, sock, watch, clients, observed>>

\* One _send of the running broadcast.  A send that raises is collected and
\* the broadcast goes on with the next client.
send(s, c) ==
    /\ pc[s] = "bcast"
    /\ c \in todo[s]
    /\ \E r \in _send(c) :
          /\ delivered' = [delivered EXCEPT ![s] = IF r = "ok" THEN @ \cup {c} ELSE @]
          /\ failures' = [failures EXCEPT ![s] = IF r = "socket.error" THEN @ \cup {c} ELSE @]
    /\ todo' = [todo EXCEPT ![s] = @ \ {c}]
    /\ UNCHANGED <<probe, server, nconn, sock, watch, clients, lock, pc, regAt,
                   log, exit, observed>>

\* The broadcast is over: the clients whose send failed are disconnected,
\* then the loop checks the registry and sleeps again.
broadcast_end(s) ==
    /\ pc[s] = "bcast"
    /\ todo[s] = {}
    /\ ~is_empty(clients \ failures[s])
    /\ disconnected(failures[s])
    /\ observed' = observed \cup failures[s]
    /\ pc' = [pc EXCEPT ![s] = "sleeping"]
    /\ regAt' = [regAt EXCEPT ![s] = {}]
    /\ delivered' = [delivered EXCEPT ![s] = {}]
    /\ failures' = [failures EXCEPT ![s] = {}]
    /\ UNCHANGED <<probe, server, nconn, watch, lock, todo, log, exit>>

\* The broadcast is over and the registry is empty: the loop ends, the task
\* leaves profile_periodically.
broadcast_end_empty(s) ==
    /\ pc[s] = "bcast"
    /\ todo[s] = {}
    /\ is_empty(clients \ failures[s])
    /\ disconnected(failures[s])
    /\ observed' = observed \cup failures[s]
    /\ Leave(s, "empty")
    /\ UNCHANGED <<probe, server, nconn, watch>>

Next ==
    \/ serve_forever
    \/ serve_forever_accept_raises
    \/ \E c \in Conns : handle(c)
    \/ \E c \in Conns : \E e \in {"eof", "reset", "data"} : PeerEvent(c, e)
    \/ \E c \in Conns : watcher(c)
    \/ \E s \in Tasks : lock_acquire(s)
    \/ \E s \in Tasks : sample(s)
    \/ \E s \in Tasks : \E f \in takeSnapshot \ {"ok"} : sample_raises(s, f)
    \/ \E s \in Tasks : \E c \in Conns : send(s, c)
    \/ \E s \in Tasks : broadcast_end(s)
    \/ \E s \in Tasks : broadcast_end_empty(s)

Spec == Init /\ [][Next]_vars

\* The timer of a sleeping task fires and the generator is resumed.
wake(s) == sample(s) \/ \E f \in takeSnapshot \ {"ok"} : sample_raises(s, f)

\* The runs checked for progress: those in which at most MaxLiveConn
\* connections arrive.
LiveNext == Next /\ nconn' <= MaxLiveConn

\* The hub runs every green thread that is ready: a task whose semaphore is
\* free, whose sleep is over or whose send can proceed, and a watcher whose
\* recv has come back.  Nothing is assumed of the peers or of the profiler.
Fairness ==
    /\ \A s \in Tasks : WF_vars(lock_acquire(s))
    /\ \A s \in Tasks : WF_vars(wake(s))
    /\ \A s \in Tasks : WF_vars(\E c \in Conns : send(s, c))
    /\ \A s \in Tasks : WF_vars(broadcast_end(s) \/ broadcast_end_empty(s))
    /\ \A c \in Conns : WF_vars(watcher(c))

FairSpec == Init /\ [][LiveNext]_vars /\ Fairness

\* The runs checked for the race of several waiting sessions: one more
\* connection arrives, so that two sessions can wait for the gate at once.
MaxRaceConn == MaxLiveConn + 1

RaceNext == Next /\ nconn' <= MaxRaceConn

RaceSpec == Init /\ [][RaceNext]_vars /\ Fairness

\* -------------------------------------------------------------------------
\* Properties

Running == {s \in Tasks : InBody(s)}

\* C1: at most one sampling task is inside the block guarded by self.lock,
\* whatever the order of connections and disconnections.
C1_OneSession == Cardinality(Running) <= 1

\* Two 0 -> 1 registrations have each spawned a task: one runs, one waits.
C1_Witness == \E s, t \in Tasks : InBody(s) /\ Pending(t)

C3_SessionWhileClients ==
    clients # {} => \E s \in Tasks : InBody(s) \/ Pending(s)

\* C4: when the sends of a broadcast are over, every client that was
\* registered when it started and has not disconnected has been delivered
\* the snapshot.
C4_AllConnectedDelivered ==
    \A s \in Tasks :
        (pc[s] = "bcast" /\ todo[s] = {}) =>
            \A c \in regAt[s] : sock[c] \in {"open", "data"} => c \in delivered[s]

\* A broadcast to two clients, none of which disconnected, is complete.
C4_Witness ==
    \E s \in Tasks :
        /\ pc[s] = "bcast"
        /\ todo[s] = {}
        /\ Cardinality(regAt[s]) >= 2
        /\ delivered[s] = regAt[s]
        /\ \A c \in regAt[s] : sock[c] = "open"

\* C5: a broadcast that starts sends to no client whose removal has been
\* observed, and every send of a broadcast goes to a client that was
\* registered when the broadcast started.
C5_NoSendAfterRemoval ==
    [][\A s \in Tasks :
          /\ (pc[s] = "sleeping" /\ pc'[s] = "bcast") =>
                 (todo'[s] \cup regAt'[s]) \cap observed = {}
          /\ (pc[s] = "bcast") =>
                 (delivered'[s] \cup failures'[s]) \ (delivered[s] \cup failures[s])
                     \subseteq regAt[s]]_vars

\* A snapshot is being delivered after the removal of a client was observed.
C5_Witness ==
    \E s \in Tasks : pc[s] = "bcast" /\ delivered[s] # {} /\ observed # {}

\* C6: when a broadcast ends, every client it targeted other than those
\* whose send failed has been delivered the snapshot, the clients whose send
\* failed are no longer registered, and no send error has ended the task.
C6_FailureIsContained ==
    [][\A s \in Tasks :
          (pc[s] = "bcast" /\ todo[s] = {} /\ pc'[s] # "bcast") =>
              /\ regAt[s] \ failures[s] \subseteq delivered[s]
              /\ failures[s] \cap clients' = {}
              /\ exit'[s] \in {"none", "empty"}]_vars

\* A broadcast in which one send failed and another client was delivered.
C6_Witness ==
    \E s \in Tasks :
        pc[s] = "bcast" /\ todo[s] = {} /\ failures[s] # {} /\ delivered[s] # {}

\* C7: no fault in taking or serializing one snapshot ends a task, and with
\* clients registered it leaves the task sleeping for its next interval with
\* the gate still taken.
C7_SamplingFaultSkipsIteration ==
    [][\A s \in Tasks :
          /\ exit'[s] # "SamplingFault"
          /\ (pc[s] = "sleeping" /\ clients # {} /\ log'[s] = "SamplingFault") =>
                 (pc'[s] = "sleeping" /\ lock' = lock /\ exit'[s] = "none")]_vars

\* A task is sleeping again after a sampling fault.
C7_Witness ==
    \E s \in Tasks : pc[s] = "sleeping" /\ log[s] = "SamplingFault" /\ clients # {}

\* C8: once a task has left profile_periodically, by a normal return or by
\* an exception, the gate is free unless another task has taken it.
C8_GateFreeAfterExit ==
    \A s \in Tasks : pc[s] = "done" => (lock > 0 \/ \E t \in Tasks : InBody(t))

\* A session ended because the profiler was unusable; a later one runs.
C8_Witness ==
    \E s, t \in Tasks : exit[s] = "ProfilerUnavailableFault" /\ InBody(t)

\* C9: no transport fault ends the accept loop or a running session.
C9_FaultsAreContained ==
    /\ server # "socket.error"
    /\ \A s \in Tasks : exit[s] # "socket.error"

\* C10: every connection returned by accept is handed to a handler, and the
\* accept loop goes back to accept.
C10_AcceptedAreHandled ==
    /\ \A c \in Conns : sock[c] # "accepted"
    /\ server # "NameError"

Spawned == {s \in Tasks : pc[s] # "none"}

\* C11: a sampling task is spawned by a step exactly when that step takes
\* the registry from no client to one, and then it is one task.
C11_SpawnOnFirstClientOnly ==
    [][/\ (Spawned' # Spawned) <=> (clients = {} /\ clients' # {})
       /\ Spawned \subseteq Spawned'
       /\ Cardinality(Spawned') <= Cardinality(Spawned) + 1]_vars

\* Two clients registered one after the other; one task was spawned.
C11_Witness == Cardinality(clients) >= 2 /\ Cardinality(Spawned) = 1

\* C12: when a watcher ends, whatever its recv gave (end of stream, a
\* socket.error returned as a value, a byte), the client it watched is no
\* longer registered and its socket is closed.
C12_WatcherRemovesItsClient ==
    [][\A c \in Conns :
          (watch[c] = "reading" /\ watch'[c] = "done") =>
              (c \notin clients' /\ sock'[c] = "closed")]_vars

\* A watcher has ended and removed its client while another stays registered.
C12_Witness ==
    \E c, d \in Conns :
        /\ watch[c] = "done" /\ c \notin clients /\ sock[c] = "closed"
        /\ d \in clients /\ watch[d] = "reading"

\* A wrap_errors object over any set of exception classes and any function.
WrapInit ==
    /\ server = "accepting"
    /\ nconn = 0
    /\ sock = [c \in Conns |-> "none"]
    /\ watch = [c \in Conns |-> "none"]
    /\ clients = {}
    /\ lock = Semaphore
    /\ pc = [s \in Tasks |-> "none"]
    /\ todo = [s \in Tasks |-> {}]
    /\ regAt = [s \in Tasks |-> {}]
    /\ delivered = [s \in Tasks |-> {}]
    /\ failures = [s \in Tasks |-> {}]
    /\ log = [s \in Tasks |-> "none"]
    /\ exit = [s \in Tasks |-> "none"]
    /\ observed = {}
    /\ probe \in [errors : SUBSET Kinds, func : Outcomes,
                  out : {[kind |-> "pending", val |-> ""]}]

\* wrap_errors.__call__
wrap_errors_call ==
    /\ probe.out.kind = "pending"
    /\ probe' = [probe EXCEPT !.out = wrap_errors(probe.errors, probe.func)]
    /\ UNCHANGED <<server, nconn, sock, watch, clients, lock, pc, todo, regAt,
                   delivered, failures, log, exit, observed>>

WrapSpec == WrapInit /\ [][wrap_errors_call]_vars

\* C13: a call of a wrap_errors object gives func's result when func
\* returns, gives the exception as a value when func raises an instance of a
\* class in errors, and raises func's exception otherwise.
C13_WrapErrors ==
    probe.out.kind # "pending" =>
        /\ probe.func.kind = "return" => probe.out = probe.func
        /\ (probe.func.kind = "raise" /\ \E e \in probe.errors : e \in mro(probe.func.val)) =>
               probe.out = [kind |-> "return", val |-> probe.func.val]
        /\ (probe.func.kind = "raise" /\ \A e \in probe.errors : e \notin mro(probe.func.val)) =>
               probe.out = [kind |-> "raise", val |-> probe.func.val]

\* A socket.timeout came back as a value from a wrapper over socket.error,
\* the way the watcher wraps recv.
C13_Witness ==
    /\ probe.errors = {"socket.error"}
    /\ probe.func = [kind |-> "raise", val |-> "socket.timeout"]
    /\ probe.out = [kind |-> "return", val |-> "socket.timeout"]

C15_IterationOrder ==
    [][\A s \in Tasks :
          /\ (Pending(s) /\ ~Pending(s)') => pc'[s] = "sleeping"
          /\ (pc[s] # "bcast" /\ pc'[s] = "bcast") =>
                 (pc[s] = "sleeping" /\ regAt'[s] = clients /\ todo'[s] = clients)
          /\ (pc[s] = "bcast" /\ pc'[s] # "bcast") =>
                 /\ todo[s] = {}
                 /\ pc'[s] = "done" <=> clients' = {}
                 /\ pc'[s] = "sleeping" <=> clients' # {}]_vars

\* After its sleep a task has taken a snapshot and is about to send it.
C15_Witness ==
    \E s \in Tasks : pc[s] = "bcast" /\ todo[s] # {} /\ todo[s] = regAt[s]

\* C16: a task that runs holds the gate from its first sleep to its exit:
\* the gate is taken whenever a task sleeps or broadcasts, it is released
\* only by a step in which a running task ends, and a task that has ended
\* takes no further step.
C16_GateHeldWhileRunning ==
    /\ [](\A s \in Tasks : InBody(s) => lock = 0)
    /\ [][/\ lock' > lock => \E s \in Tasks : InBody(s) /\ pc'[s] = "done"
          /\ \A s \in Tasks :
                pc[s] = "done" =>
                    /\ pc'[s] = "done"
                    /\ todo'[s] = {} /\ regAt'[s] = {} /\ delivered'[s] = {}]_vars

\* A task has ended on an empty registry and the gate is free.
C16_Witness ==
    \E s \in Tasks :
        exit[s] = "empty" /\ lock = Semaphore /\ \A t \in Tasks : ~InBody(t)

C18_SecondRemovalIsNoOp ==
    [][/\ \A c \in Conns :
             (watch[c] = "reading" /\ watch'[c] = "done" /\ c \notin clients) =>
                 (clients' = clients /\ sock' = sock)
       /\ \A s \in Tasks :
             (pc[s] = "bcast" /\ pc'[s] # "bcast" /\ failures[s] \cap clients = {}) =>
                 (clients' = clients /\ sock' = sock)
       /\ \A c \in Conns :
             sock[c] = "closed" => (sock'[c] = "closed" /\ c \notin clients')]_vars

\* Both orders: the delivery to one client failed after its watcher removed
\* it, and another client was removed while its watcher is still reading.
C18_Witness ==
    \E s \in Tasks : \E c, d \in Conns :
        /\ c # d
        /\ c \in failures[s] /\ c \notin clients /\ watch[c] = "done"
        /\ sock[d] = "closed" /\ watch[d] = "reading"

\* The session tasks that exist: waiting for the gate, or holding it.
Live == {s \in Tasks : Pending(s) \/ InBody(s)}

\* The clients removed from the registry so far.
Removed == {c \in Conns : sock[c] = "closed"}

\* C19: at most two session tasks exist at the same time.
C19_AtMostTwoTasks == Cardinality(Live) <= 1 + 1

\* C19, amended: a task is spawned by every registration that finds the
\* registry empty, so the tasks that exist are at most one more than the
\* clients removed so far, and all but one of them wait for the gate.
C19_TasksBoundedByRemovals ==
    /\ Cardinality(Live) <= 1 + Cardinality(Removed)
    /\ Cardinality({s \in Live : InBody(s)}) <= 1

\* Three tasks exist: one sleeps, two wait for the gate.
C19_Witness ==
    /\ Cardinality(Live) = 3
    /\ \E s \in Live : pc[s] = "sleeping"

\* C20: the step of a watcher that detects a disconnection removes its own
\* client only: every other registration, socket and watcher, every task's
\* position and the gate are unchanged; and a task ends on the emptiness
\* check only when no client remains registered.
C20_WatcherRemovesOnlyItsClient ==
    [][/\ \A c \in Conns :
             (watch[c] = "reading" /\ watch'[c] = "done") =>
                 /\ clients' = clients \ {c}
                 /\ \A d \in Conns \ {c} : sock'[d] = sock[d] /\ watch'[d] = watch[d]
                 /\ pc' = pc
                 /\ lock' = lock
       /\ \A s \in Tasks :
             (InBody(s) /\ pc'[s] = "done" /\ exit'[s] = "empty") => clients' = {}]_vars

\* A watcher removed its client while a session runs for another client
\* whose watcher is still reading.
C20_Witness ==
    \E s \in Tasks : \E c, d \in Conns :
        /\ InBody(s)
        /\ watch[c] = "done" /\ c \notin clients /\ c \in observed
        /\ d \in clients /\ watch[d] = "reading" /\ sock[d] = "open"

====
